---- MODULE Spec2Model ----
(***************************************************************************)
(* A model of sort_css (src/src/sort_css/sort_css.py).                     *)
(*                                                                         *)
(* Python strings are sequences of one-character strings, so that          *)
(* splitting, stripping, prefix tests and string comparison are computed   *)
(* and not assumed.  A Python dict is a sequence of entries in insertion   *)
(* order.                                                                  *)
(*                                                                         *)
(* Spec     : main()'s CSS pipeline: css_to_dict (one step per rule of     *)
(*            sheet.cssRules), format_css_dict, one of the two sorters,    *)
(*            generate_output_str.                                         *)
(* SpecAnyKeys : the same on sheets that may hold degenerate selectors.     *)
(* SpecHtml : get_html_element_order on a parsed HTML document.            *)
(* SpecHtmlDocument : the same on authored pages and fragments.            *)
(***************************************************************************)
EXTENDS Integers, Sequences, FiniteSets, TLC

VARIABLES
    pc,                 \* position in main() / get_html_element_order
    rules,              \* the rules of sheet.cssRules consumed so far
    comment,            \* css_to_dict's local `comment`
    css_dict,           \* css_to_dict's css_dict
    formated_css_dict,  \* main's formated_css_dict
    html_element_order, \* the identifier tuple handed to sort_css_by_html
    sorted_css,         \* main's sorted_css
    css_output,         \* main's css_output
    soup,               \* the parsed HTML document (bs4 tree)
    html_dict,          \* convert_html_to_dict's result
    identifiers         \* what get_identifiers_in_order yields, in order

vars == <<pc, rules, comment, css_dict, formated_css_dict, html_element_order,
          sorted_css, css_output, soup, html_dict, identifiers>>

cssVars == <<rules, comment, css_dict, formated_css_dict, sorted_css, css_output>>
htmlVars == <<soup, html_dict, identifiers>>

\* ------------------------------------------------------------------ bounds
MaxRules == 3
MaxIds == 2
MaxNodes == 3

\* ----------------------------------------------------------------- strings

\* ord() of the characters the model's inputs are written with.
Ord(c) ==
    CASE c = "\n" -> 10 [] c = " " -> 32 [] c = "#" -> 35 [] c = "*" -> 42
      [] c = "," -> 44 [] c = "." -> 46 [] c = "/" -> 47 [] c = "1" -> 49
      [] c = "2" -> 50 [] c = "3" -> 51 [] c = ":" -> 58 [] c = ";" -> 59
      [] c = "B" -> 66 [] c = "a" -> 97 [] c = "b" -> 98 [] c = "c" -> 99
      [] c = "d" -> 100 [] c = "h" -> 104 [] c = "i" -> 105 [] c = "l" -> 108
      [] c = "m" -> 109 [] c = "o" -> 111 [] c = "p" -> 112 [] c = "q" -> 113
      [] c = "r" -> 114 [] c = "t" -> 116 [] c = "v" -> 118 [] c = "x" -> 120
      [] c = "y" -> 121 [] c = "{" -> 123 [] c = "}" -> 125

\* The characters str.strip() removes.
Whitespace == {" ", "\n"}

\* Python's < on str: by code point, a proper prefix first.
RECURSIVE StrLess(_, _)
StrLess(s, t) ==
    IF t = <<>> THEN FALSE
    ELSE IF s = <<>> THEN TRUE
    ELSE IF Ord(Head(s)) < Ord(Head(t)) THEN TRUE
    ELSE IF Ord(Head(s)) > Ord(Head(t)) THEN FALSE
    ELSE StrLess(Tail(s), Tail(t))

\* str.lstrip() / str.rstrip() / str.strip()
RECURSIVE LStrip(_)
LStrip(s) ==
    IF s # <<>> /\ Head(s) \in Whitespace THEN LStrip(Tail(s)) ELSE s

RECURSIVE RStrip(_)
RStrip(s) ==
    IF s # <<>> /\ s[Len(s)] \in Whitespace
    THEN RStrip(SubSeq(s, 1, Len(s) - 1)) ELSE s

Strip(s) == RStrip(LStrip(s))

\* str.replace(ch, "")
RemoveChar(s, ch) == SelectSeq(s, LAMBDA c : c # ch)

\* re.split on a single-character alternation: the pieces between the
\* separators, empty pieces included; one piece for a string without any.
RECURSIVE SplitFrom(_, _, _, _)
SplitFrom(s, seps, i, piece) ==
    IF i > Len(s) THEN <<piece>>
    ELSE IF s[i] \in seps THEN <<piece>> \o SplitFrom(s, seps, i + 1, <<>>)
    ELSE SplitFrom(s, seps, i + 1, Append(piece, s[i]))

Split(s, seps) == SplitFrom(s, seps, 1, <<>>)

\* str.startswith((".", "#"))
StartsWithDotOrHash(s) == s # <<>> /\ s[1] \in {".", "#"}

\* sorted() on a list of str: insertion into an ascending list, stable.
RECURSIVE InsertSorted(_, _)
InsertSorted(x, s) ==
    IF s = <<>> THEN <<x>>
    ELSE IF StrLess(x, Head(s)) THEN <<x>> \o s
    ELSE <<Head(s)>> \o InsertSorted(x, Tail(s))

RECURSIVE sorted(_)
sorted(s) ==
    IF s = <<>> THEN <<>>
    ELSE InsertSorted(s[Len(s)], sorted(SubSeq(s, 1, Len(s) - 1)))

\* ------------------------------------------------------------------- dicts

Keys(d) == [i \in 1..Len(d) |-> d[i].key]
KeySet(d) == {d[i].key : i \in 1..Len(d)}
HasKey(d, k) == \E i \in 1..Len(d) : d[i].key = k
IndexOf(d, k) == CHOOSE i \in 1..Len(d) : d[i].key = k
Get(d, k) == d[IndexOf(d, k)]

\* ------------------------------------------------------------- css_to_dict

\* One rule of sheet.cssRules, as cssutils hands it over: a CSSComment with
\* its cssText, or a style rule with its selectorText and style.cssText.
CommentRule(text) ==
    [type |-> "comment", cssText |-> text, selectorText |-> <<>>, style |-> <<>>]
StyleRule(sel, style) ==
    [type |-> "style", cssText |-> <<>>, selectorText |-> sel, style |-> style]

\* The body of css_to_dict's loop for one rule; st is the pair of the
\* function's locals (css_dict, comment).  A style rule overwrites the
\* entry of its selectorText.
css_to_dict_rule_keeps_comment(st, rule) ==
    IF rule.type = "comment"
    THEN [css_dict |-> st.css_dict, comment |-> rule.cssText]
    ELSE LET d1 == IF ~HasKey(st.css_dict, rule.selectorText)
                   THEN Append(st.css_dict,
                               [key |-> rule.selectorText, comment |-> <<>>, props |-> <<>>])
                   ELSE st.css_dict
             i == IndexOf(d1, rule.selectorText)
         IN [css_dict |-> [d1 EXCEPT ![i] = [key |-> rule.selectorText,
                                              comment |-> st.comment,
                                              props |-> rule.style]],
             comment |-> st.comment]

css_to_dict_rule(st, rule) ==
    IF rule.type = "comment"
    THEN [css_dict |-> st.css_dict, comment |-> rule.cssText]
    ELSE LET d1 == IF ~HasKey(st.css_dict, rule.selectorText)
                   THEN Append(st.css_dict,
                               [key |-> rule.selectorText, comment |-> <<>>, props |-> <<>>])
                   ELSE st.css_dict
             i == IndexOf(d1, rule.selectorText)
         IN [css_dict |-> [d1 EXCEPT ![i] = [key |-> rule.selectorText,
                                              comment |-> st.comment,
                                              props |-> rule.style]],
             comment |-> <<>>]

\* --------------------------------------------------------- format_css_dict

\* re.split(";", props), each piece with its newlines removed and stripped.
SplitProperties(props) ==
    LET pieces == Split(props, {";"})
    IN [i \in 1..Len(pieces) |-> Strip(RemoveChar(pieces[i], "\n"))]

\* selectors.split(","), each piece stripped.
SplitSelectors(selectors) ==
    LET pieces == Split(selectors, {","})
    IN [i \in 1..Len(pieces) |-> Strip(pieces[i])]

\* The inner loop of format_css_dict: one css_dict entry's selectors.
RECURSIVE FormatSelectors(_, _, _, _)
FormatSelectors(fd, selectors, values, split_properties) ==
    IF selectors = <<>> THEN fd
    ELSE LET selector == Head(selectors)
             fd1 == IF ~HasKey(fd, selector)
                    THEN Append(fd, [key |-> selector, comment |-> values.comment,
                                     props |-> split_properties])
                    ELSE [fd EXCEPT ![IndexOf(fd, selector)] =
                             [key |-> selector,
                              comment |-> @.comment \o values.comment,
                              props |-> @.props \o split_properties]]
         IN FormatSelectors(fd1, Tail(selectors), values, split_properties)

\* The outer loop of format_css_dict.
RECURSIVE FormatEntries(_, _)
FormatEntries(d, fd) ==
    IF d = <<>> THEN fd
    ELSE FormatEntries(Tail(d),
             FormatSelectors(fd, SplitSelectors(Head(d).key), Head(d),
                             SplitProperties(Head(d).props)))

format_css_dict(d) ==
    LET fd == FormatEntries(d, <<>>)
    IN [i \in 1..Len(fd) |->
           [key |-> fd[i].key, comment |-> fd[i].comment, props |-> sorted(fd[i].props)]]

\* -------------------------------------------------------- sort_css_by_keys

sort_css_by_keys_unsorted(d) ==
    LET ks == Keys(d)
        tags == SelectSeq(ks, LAMBDA k : ~StartsWithDotOrHash(k))
        ids_classes == SelectSeq(ks, LAMBDA k : StartsWithDotOrHash(k))
        merged == tags \o ids_classes
    IN [i \in 1..Len(merged) |-> Get(d, merged[i])]

sort_css_by_keys(d) ==
    LET ks == sorted(Keys(d))
        tags == SelectSeq(ks, LAMBDA k : ~StartsWithDotOrHash(k))
        ids_classes == SelectSeq(ks, LAMBDA k : StartsWithDotOrHash(k))
        merged == tags \o ids_classes
    IN [i \in 1..Len(merged) |-> Get(d, merged[i])]

\* -------------------------------------------------------- sort_css_by_html

\* list(filter(None, re.split(" |:", css)))
SelectorPieces(css) == SelectSeq(Split(css, {" ", ":"}), LAMBDA p : p # <<>>)

\* The two nested loops of sort_css_by_html, at identifier i and entry j.
\* Subscripting an empty piece list with [0] raises IndexError.
RECURSIVE SortByHtmlLoop(_, _, _, _, _)
SortByHtmlLoop(d, order, i, j, result) ==
    IF i > Len(order) THEN [raised |-> FALSE, result |-> result]
    ELSE IF j > Len(d) THEN SortByHtmlLoop(d, order, i + 1, 1, result)
    ELSE IF SelectorPieces(d[j].key) = <<>>
         THEN [raised |-> TRUE, result |-> result]
    ELSE IF Strip(SelectorPieces(d[j].key)[1]) = order[i] /\ ~HasKey(result, d[j].key)
         THEN SortByHtmlLoop(d, order, i, j + 1, Append(result, d[j]))
    ELSE SortByHtmlLoop(d, order, i, j + 1, result)

\* The loops nested the other way round: entries outside, identifiers inside.
RECURSIVE SortByHtmlLoopSwapped(_, _, _, _, _)
SortByHtmlLoopSwapped(d, order, j, i, result) ==
    IF j > Len(d) \/ order = <<>> THEN [raised |-> FALSE, result |-> result]
    ELSE IF i > Len(order) THEN SortByHtmlLoopSwapped(d, order, j + 1, 1, result)
    ELSE IF SelectorPieces(d[j].key) = <<>>
         THEN [raised |-> TRUE, result |-> result]
    ELSE IF Strip(SelectorPieces(d[j].key)[1]) = order[i] /\ ~HasKey(result, d[j].key)
         THEN SortByHtmlLoopSwapped(d, order, j, i + 1, Append(result, d[j]))
    ELSE SortByHtmlLoopSwapped(d, order, j, i + 1, result)

sort_css_by_html_swapped(d, order) == SortByHtmlLoopSwapped(d, order, 1, 1, <<>>)

\* The whole selector compared with the identifier, not its leading piece.
RECURSIVE SortByHtmlLoopWholeKey(_, _, _, _, _)
SortByHtmlLoopWholeKey(d, order, i, j, result) ==
    IF i > Len(order) THEN [raised |-> FALSE, result |-> result]
    ELSE IF j > Len(d) THEN SortByHtmlLoopWholeKey(d, order, i + 1, 1, result)
    ELSE IF SelectorPieces(d[j].key) = <<>>
         THEN [raised |-> TRUE, result |-> result]
    ELSE IF Strip(d[j].key) = order[i] /\ ~HasKey(result, d[j].key)
         THEN SortByHtmlLoopWholeKey(d, order, i, j + 1, Append(result, d[j]))
    ELSE SortByHtmlLoopWholeKey(d, order, i, j + 1, result)

sort_css_by_html_whole_key(d, order) == SortByHtmlLoopWholeKey(d, order, 1, 1, <<>>)

sort_css_by_html(d, order) == SortByHtmlLoop(d, order, 1, 1, <<>>)

\* ----------------------------------------------------- generate_output_str

NL == <<"\n">>
Indent == <<" ", " ", " ", " ">>

\* The loop over value["props"].
RECURSIVE OutputProps(_)
OutputProps(props) ==
    IF props = <<>> THEN <<>>
    ELSE Indent \o Head(props) \o <<";">> \o NL \o OutputProps(Tail(props))

RECURSIVE OutputPropsNoIndent(_)
OutputPropsNoIndent(props) ==
    IF props = <<>> THEN <<>>
    ELSE Head(props) \o <<";">> \o NL \o OutputPropsNoIndent(Tail(props))

RECURSIVE generate_output_str_no_indent(_)
generate_output_str_no_indent(d) ==
    IF d = <<>> THEN <<>>
    ELSE (IF Head(d).comment # <<>> THEN NL \o Head(d).comment \o NL ELSE NL)
         \o Head(d).key \o <<" ", "{">> \o NL
         \o OutputPropsNoIndent(Head(d).props)
         \o <<"}">> \o NL
         \o generate_output_str_no_indent(Tail(d))

\* The loop over css_dict.items(), result_str being what is returned.
RECURSIVE GenerateOutputLoop(_)
GenerateOutputLoop(d) ==
    IF d = <<>> THEN <<>>
    ELSE (IF Head(d).comment # <<>> THEN NL \o Head(d).comment \o NL ELSE NL)
         \o Head(d).key \o <<" ", "{">> \o NL
         \o OutputProps(Head(d).props)
         \o <<"}">> \o NL
         \o GenerateOutputLoop(Tail(d))

generate_output_str(d) == GenerateOutputLoop(d)

\* ------------------------------------------------------------------ inputs

\* Comment nodes' cssText.
Comments == { <<"/", "*", "1", "*", "/">>, <<"/", "*", "2", "*", "/">> }

\* Style rules' selectorText: a tag, a comma group sharing that tag, a class
\* with a descendant, an id, a tag with a pseudo-class.
SelectorTexts ==
    { <<"a">>, <<"a", ",", " ", "B">>, <<".", "x", " ", "a">>, <<"#", "i">>,
      <<"a", ":", "h">> }

\* Selector texts with a comma piece that holds no token: separator
\* characters only, or nothing after the comma.
DegenerateSelectorTexts == { <<":">>, <<"a", ",">> }

\* Style rules' style.cssText, as cssutils serialises a declaration block.
StyleTexts ==
    { <<"q", ":", " ", "2", ";", "\n", "p", ":", " ", "1">>,
      <<"r", ":", " ", "3">> }

\* The identifiers an HTML document can contribute.
Identifiers == { <<"a">>, <<"B">>, <<".", "x">> }

\* Tuples without duplicates, as tuple(dict.fromkeys(...)) returns them.
IdentifierOrders ==
    { t \in UNION { [1..n -> Identifiers] : n \in 0..MaxIds } :
        \A i, j \in 1..Len(t) : i # j => t[i] # t[j] }

\* The empty document, for the pipeline that reads no HTML.
NoSoup == <<>>

\* ------------------------------------------------- main(): the CSS pipeline

Init ==
    /\ pc = "css_to_dict"
    /\ rules = <<>>
    /\ comment = <<>>
    /\ css_dict = <<>>
    /\ formated_css_dict = <<>>
    /\ html_element_order = <<>>
    /\ sorted_css = <<>>
    /\ css_output = <<>>
    /\ soup = NoSoup
    /\ html_dict = [node |-> 0, entries |-> <<>>]
    /\ identifiers = <<>>

\* css_to_dict's loop takes the next rule of the sheet.
CssToDictTake(rule) ==
    /\ pc = "css_to_dict"
    /\ Len(rules) < MaxRules
    /\ LET st == css_to_dict_rule([css_dict |-> css_dict, comment |-> comment], rule)
       IN /\ css_dict' = st.css_dict
          /\ comment' = st.comment
    /\ rules' = Append(rules, rule)
    /\ UNCHANGED <<pc, formated_css_dict, html_element_order, sorted_css, css_output>>
    /\ UNCHANGED htmlVars

CssToDictComment == \E c \in Comments : CssToDictTake(CommentRule(c))

CssToDictStyle ==
    \E sel \in SelectorTexts, style \in StyleTexts : CssToDictTake(StyleRule(sel, style))

\* The sheet has no more rules: css_to_dict returns, main calls format_css_dict.
FormatCssDict ==
    /\ pc = "css_to_dict"
    /\ formated_css_dict' = format_css_dict(css_dict)
    /\ pc' = "formated"
    /\ UNCHANGED <<rules, comment, css_dict, html_element_order, sorted_css, css_output>>
    /\ UNCHANGED htmlVars

\* main without --by_html.
SortCssByKeys ==
    /\ pc = "formated"
    /\ sorted_css' = sort_css_by_keys(formated_css_dict)
    /\ pc' = "sorted_by_keys"
    /\ UNCHANGED <<rules, comment, css_dict, formated_css_dict, html_element_order,
                   css_output>>
    /\ UNCHANGED htmlVars

\* main with --by_html: the identifier tuple of the HTML file, then the sort,
\* which returns or dies of the IndexError.
SortCssByHtml ==
    /\ pc = "formated"
    /\ \E order \in IdentifierOrders :
          LET r == sort_css_by_html(formated_css_dict, order)
          IN /\ html_element_order' = order
             /\ sorted_css' = r.result
             /\ pc' = IF r.raised THEN "IndexError" ELSE "sorted_by_html"
    /\ UNCHANGED <<rules, comment, css_dict, formated_css_dict, css_output>>
    /\ UNCHANGED htmlVars

GenerateOutputStr ==
    /\ pc \in {"sorted_by_keys", "sorted_by_html"}
    /\ css_output' = generate_output_str(sorted_css)
    /\ pc' = IF pc = "sorted_by_keys" THEN "done_by_keys" ELSE "done_by_html"
    /\ UNCHANGED <<rules, comment, css_dict, formated_css_dict, html_element_order,
                   sorted_css>>
    /\ UNCHANGED htmlVars

Next ==
    \/ CssToDictComment
    \/ CssToDictStyle
    \/ FormatCssDict
    \/ SortCssByKeys
    \/ SortCssByHtml
    \/ GenerateOutputStr

Spec == Init /\ [][Next]_vars

\* The same pipeline on sheets that may also hold the degenerate selectors.
CssToDictStyleDegenerate ==
    \E sel \in DegenerateSelectorTexts, style \in StyleTexts :
        CssToDictTake(StyleRule(sel, style))

NextAnyKeys == Next \/ CssToDictStyleDegenerate

SpecAnyKeys == Init /\ [][NextAnyKeys]_vars

\* ------------------------------------------------------- the HTML document

\* soup is the bs4 tree in document order: soup[i] is the i-th node, its
\* parent an earlier node or 0 for soup.contents.  A node is a text leaf or
\* an element with a name and element.attrs; attrs holds the id as a list
\* of zero or one string and the class list as a list of zero or one list.
s_html == <<"h", "t", "m", "l">>
s_body == <<"b", "o", "d", "y">>
s_attributes == <<"a", "t", "t", "r", "i", "b", "u", "t", "e", "s">>

Tags == { s_html, s_body, <<"p">>, <<"d", "i", "v">> }

NoAttrs == [id |-> <<>>, class |-> <<>>]

AttrChoices ==
    { NoAttrs,
      [id |-> << <<"i">> >>, class |-> << << <<"c">>, <<"d">> >> >>],
      [id |-> <<>>, class |-> << << <<"d">> >> >>] }

TextNode == [is_text |-> TRUE, name |-> <<>>, attrs |-> NoAttrs]

NodeChoices ==
    {TextNode} \cup
    { [is_text |-> FALSE, name |-> n, attrs |-> a] : n \in Tags, a \in AttrChoices }

RECURSIVE AncestorsOrSelf(_, _)
AncestorsOrSelf(parent, i) ==
    {i} \cup (IF parent[i] = 0 THEN {} ELSE AncestorsOrSelf(parent, parent[i]))

\* Parent arrays of n nodes listed in document (pre-)order.
Shapes(n) ==
    { parent \in [1..n -> 0..(n - 1)] :
        \A i \in 1..n :
            /\ parent[i] < i
            /\ i > 1 /\ parent[i] # 0 => parent[i] \in AncestorsOrSelf(parent, i - 1) }

\* The document with shape parent and nodes label.
Soup(parent, label) ==
    [i \in 1..Len(parent) |-> [is_text |-> label[i].is_text, name |-> label[i].name,
                               attrs |-> label[i].attrs, parent |-> parent[i]]]

\* A text node has no children.
WellFormed(tree) ==
    \A i \in 1..Len(tree) : tree[i].parent # 0 => ~tree[tree[i].parent].is_text

\* iter(element) / soup.contents: the children of node p (0: the document).
Children(tree, p) ==
    SelectSeq([i \in 1..Len(tree) |-> i], LAMBDA i : tree[i].parent = p)

\* ----------------------------------------------------------------- recurse

\* A collector dict is [node, entries]: entries is the dict, in insertion
\* order, of [key, attrs, list] (attrs for the "attributes" key, list for a
\* tag name); node is the element the dict was made for (0: the document),
\* which the code does not store and nothing below branches on.
AttributesEntry(attrs) == [key |-> s_attributes, attrs |-> attrs, list |-> <<>>]
TagEntry(name) == [key |-> name, attrs |-> NoAttrs, list |-> <<>>]

\* bool(element.attrs)
AttrsTruthy(attrs) == attrs.id # <<>> \/ attrs.class # <<>>

RECURSIVE recurse(_, _, _)
recurse(tree, html_groups, collector_dict) ==
    IF html_groups = <<>> THEN collector_dict
    ELSE LET group == Head(html_groups)
             element == tree[group]
         IN IF element.is_text
            THEN recurse(tree, Tail(html_groups), collector_dict)
            ELSE LET entries1 == IF ~HasKey(collector_dict.entries, element.name)
                                 THEN Append(collector_dict.entries, TagEntry(element.name))
                                 ELSE collector_dict.entries
                     tmp_collector ==
                         [node |-> group,
                          entries |-> IF AttrsTruthy(element.attrs)
                                      THEN <<AttributesEntry(element.attrs)>>
                                      ELSE <<>>]
                     sub == recurse(tree, Children(tree, group), tmp_collector)
                     k == IndexOf(entries1, element.name)
                 IN recurse(tree, Tail(html_groups),
                            [node |-> collector_dict.node,
                             entries |-> [entries1 EXCEPT ![k].list = Append(@, sub)]])

\* _parse / convert_html_to_dict
convert_html_to_dict(tree) == recurse(tree, Children(tree, 0), [node |-> 0, entries |-> <<>>])

\* ------------------------------------------------ get_identifiers_in_order

\* What the generator yields is a sequence of [tok, kind, node]: tok is the
\* string yielded; kind and node record which yield statement produced it
\* and for which dict (an "id"/"class" for the element of the dict, a "tag"
\* for a key of the dict, that is for its children of that name).
Yield(tok, kind, node) == [tok |-> tok, kind |-> kind, node |-> node]

RECURSIVE ClassIdentifiers(_, _)
ClassIdentifiers(node, classes) ==
    IF classes = <<>> THEN <<>>
    ELSE <<Yield(<<".">> \o Head(classes), "class", node)>>
         \o ClassIdentifiers(node, Tail(classes))

\* The classes first, then the id.
AttributeIdentifiersClassFirst(node, value) ==
    (IF value.class # <<>> THEN ClassIdentifiers(node, value.class[1]) ELSE <<>>)
    \o (IF value.id # <<>> THEN <<Yield(<<"#">> \o value.id[1], "id", node)>> ELSE <<>>)

\* if key == "attributes": the id, then the classes in their order.
AttributeIdentifiers(node, value) ==
    (IF value.id # <<>> THEN <<Yield(<<"#">> \o value.id[1], "id", node)>> ELSE <<>>)
    \o (IF value.class # <<>> THEN ClassIdentifiers(node, value.class[1]) ELSE <<>>)

RECURSIVE IdentifiersOfList(_)
RECURSIVE IdentifiersOfDicts(_)
RECURSIVE IdentifiersOfItems(_, _)

\* for key, value in dictionary.items()
IdentifiersOfItems(node, items) ==
    IF items = <<>> THEN <<>>
    ELSE LET key == Head(items).key
         IN (IF key = s_attributes
             THEN AttributeIdentifiers(node, Head(items).attrs)
             ELSE <<Yield(key, "tag", node)>> \o IdentifiersOfList(Head(items).list))
            \o IdentifiersOfItems(node, Tail(items))

\* for dictionary in start_node
IdentifiersOfDicts(start_node) ==
    IF start_node = <<>> THEN <<>>
    ELSE IdentifiersOfItems(Head(start_node).node, Head(start_node).entries)
         \o IdentifiersOfDicts(Tail(start_node))

\* get_identifiers_in_order on a list.
IdentifiersOfList(html_dict_list) ==
    IF HasKey(html_dict_list[1].entries, s_body)
    THEN <<Yield(s_body, "tag", html_dict_list[1].node)>>
         \o IdentifiersOfDicts(Get(html_dict_list[1].entries, s_body).list)
    ELSE IdentifiersOfDicts(html_dict_list)

\* get_identifiers_in_order on a dict.
IdentifiersOfDict(d) == IdentifiersOfItems(d.node, d.entries)

\* ------------------------------------------------- get_html_element_order

\* The generator get_html_element_order builds: on html_dict["html"], or on
\* html_dict itself after the KeyError.
get_identifiers_in_order(d) ==
    IF HasKey(d.entries, s_html)
    THEN IdentifiersOfList(Get(d.entries, s_html).list)
    ELSE IdentifiersOfDict(d)

\* tuple(dict.fromkeys(...)): the first occurrence of each string.
RECURSIVE DictFromKeys(_, _)
DictFromKeys(toks, seen) ==
    IF toks = <<>> THEN seen
    ELSE DictFromKeys(Tail(toks),
                      IF \E i \in 1..Len(seen) : seen[i] = Head(toks)
                      THEN seen ELSE Append(seen, Head(toks)))

Tokens(ids) == [i \in 1..Len(ids) |-> ids[i].tok]

InitHtml ==
    /\ pc = "html"
    /\ \E n \in 0..MaxNodes :
          \E parent \in Shapes(n), label \in [1..n -> NodeChoices] :
              /\ WellFormed(Soup(parent, label))
              /\ soup = Soup(parent, label)
    /\ html_dict = [node |-> 0, entries |-> <<>>]
    /\ identifiers = <<>>
    /\ html_element_order = <<>>
    /\ rules = <<>>
    /\ comment = <<>>
    /\ css_dict = <<>>
    /\ formated_css_dict = <<>>
    /\ sorted_css = <<>>
    /\ css_output = <<>>

GetHtmlElementOrder ==
    /\ pc = "html"
    /\ LET d == convert_html_to_dict(soup)
           ids == get_identifiers_in_order(d)
       IN /\ html_dict' = d
          /\ identifiers' = ids
          /\ html_element_order' = DictFromKeys(Tokens(ids), <<>>)
    /\ pc' = "html_done"
    /\ UNCHANGED soup
    /\ UNCHANGED cssVars

NextHtml == GetHtmlElementOrder

SpecHtml == InitHtml /\ [][NextHtml]_vars

\* The authored documents: a fragment without html and body elements, or a
\* page whose only top-level node is the html element, with the body, if it
\* has one, as the only child of html.
Structured(tree) ==
    /\ \A i \in 1..Len(tree) :
          /\ tree[i].name = s_html => i = 1
          /\ tree[i].name = s_body => i = 2 /\ tree[i].parent = 1 /\ tree[1].name = s_html
    /\ Len(tree) >= 1 /\ tree[1].name = s_html =>
          \A i \in 2..Len(tree) : tree[i].parent # 0
    /\ Len(tree) >= 2 /\ tree[2].name = s_body =>
          \A i \in 3..Len(tree) : tree[i].parent # 1

InitHtmlDocument == InitHtml /\ Structured(soup)

SpecHtmlDocument == InitHtmlDocument /\ [][NextHtml]_vars

\* =================================================================== claims

Range(seq) == {seq[i] : i \in 1..Len(seq)}
Last(seq) == seq[Len(seq)]
Position(seq, x) == CHOOSE i \in 1..Len(seq) : seq[i] = x
NoDuplicates(seq) == \A i, j \in 1..Len(seq) : i # j => seq[i] # seq[j]

RECURSIVE Flatten(_)
Flatten(seqs) == IF seqs = <<>> THEN <<>> ELSE Head(seqs) \o Flatten(Tail(seqs))

\* The style-rule blocks of the sheet that name the simple selector s.
BlocksNaming(s) ==
    SelectSeq([i \in 1..Len(rules) |-> i],
              LAMBDA i : /\ rules[i].type = "style"
                         /\ s \in Range(SplitSelectors(rules[i].selectorText)))

\* The simple selectors the sheet names.
NamedSelectors ==
    UNION { Range(SplitSelectors(rules[i].selectorText)) :
            i \in {j \in 1..Len(rules) : rules[j].type = "style"} }

\* The comment attached to block i: the comment node right before it, if any.
AttachedComment(i) ==
    IF i > 1 /\ rules[i - 1].type = "comment" THEN rules[i - 1].cssText ELSE <<>>

Parsed == pc \notin {"css_to_dict", "html", "html_done"}

\* C1: after css_to_dict and format_css_dict, the properties of every simple
\* selector are the declarations of all the blocks naming it, concatenated in
\* encounter order and then alphabetized; none is lost.
C1_AllDeclarationsKept ==
    Parsed =>
        \A s \in NamedSelectors :
            /\ HasKey(formated_css_dict, s)
            /\ LET blocks == BlocksNaming(s)
                   decls == Flatten([b \in 1..Len(blocks) |->
                                        SplitProperties(rules[blocks[b]].style)])
               IN Get(formated_css_dict, s).props = sorted(decls)

\* C9: after parsing, the comment of every simple selector is the
\* concatenation, in encounter order and without separator, of the comments
\* attached to the blocks naming it; no earlier block's comment is discarded.
C9_AllCommentsKept ==
    Parsed =>
        \A s \in NamedSelectors :
            /\ HasKey(formated_css_dict, s)
            /\ LET blocks == BlocksNaming(s)
               IN Get(formated_css_dict, s).comment =
                      Flatten([b \in 1..Len(blocks) |-> AttachedComment(blocks[b])])

\* C6: the pending-comment slot is a two-state accumulator: after a comment
\* node it holds that comment's text (the last of several), after a style
\* rule it is empty, and the style rule just handled has received the text of
\* the comment node right before it, or the empty comment if there is none.
C6_PendingComment ==
    /\ comment = (IF rules # <<>> /\ Last(rules).type = "comment"
                  THEN Last(rules).cssText ELSE <<>>)
    /\ rules # <<>> /\ Last(rules).type = "style" =>
           /\ HasKey(css_dict, Last(rules).selectorText)
           /\ Get(css_dict, Last(rules).selectorText).comment = AttachedComment(Len(rules))

\* Two comments in a row, then a style rule: it has the second one.
C6_Witness ==
    /\ Len(rules) = 3
    /\ rules[1].type = "comment" /\ rules[2].type = "comment" /\ rules[3].type = "style"
    /\ rules[1].cssText # rules[2].cssText
    /\ Get(css_dict, rules[3].selectorText).comment = rules[2].cssText
    /\ comment = <<>>

\* C4: the lexicographic strategy returns a permutation of the input keys,
\* every key not starting with "." or "#" before every key that does, each
\* partition in ascending case-sensitive order, each key with its input rule.
C4_SortByKeys ==
    pc \in {"sorted_by_keys", "done_by_keys"} =>
        LET ks == Keys(sorted_css)
        IN /\ Len(ks) = Len(formated_css_dict)
           /\ Range(ks) = KeySet(formated_css_dict)
           /\ \A i, j \in 1..Len(ks) :
                 i < j =>
                    /\ ~(StartsWithDotOrHash(ks[i]) /\ ~StartsWithDotOrHash(ks[j]))
                    /\ StartsWithDotOrHash(ks[i]) = StartsWithDotOrHash(ks[j])
                          => StrLess(ks[i], ks[j])
           /\ \A i \in 1..Len(ks) : sorted_css[i] = Get(formated_css_dict, ks[i])

\* An upper-case tag, lower-case tags and id/class selectors, parsed in an
\* order that is not the sorted one.
C4_Witness ==
    /\ pc = "sorted_by_keys"
    /\ Keys(sorted_css) # Keys(formated_css_dict)
    /\ \E i, j, k \in 1..Len(sorted_css) :
          /\ i < j /\ j < k
          /\ sorted_css[i].key = <<"B">>
          /\ sorted_css[j].key = <<"a">>
          /\ StartsWithDotOrHash(sorted_css[k].key)

\* The leading simple token of a selector: the first non-empty piece after
\* splitting on space or colon; none for a selector without such a piece.
LeadingTokens(k) ==
    LET pieces == SelectorPieces(k)
    IN IF pieces = <<>> THEN {} ELSE {Strip(pieces[1])}

\* C5: the keys of the HTML-order result are exactly the keys of the model
\* whose leading simple token is in the identifier sequence; no key appears
\* twice and every placed key carries its rule of the model.
C5_SortByHtmlKeys ==
    pc \in {"sorted_by_html", "done_by_html"} =>
        /\ KeySet(sorted_css) =
              {k \in KeySet(formated_css_dict) :
                  LeadingTokens(k) \cap Range(html_element_order) # {}}
        /\ NoDuplicates(Keys(sorted_css))
        /\ \A i \in 1..Len(sorted_css) :
              sorted_css[i] = Get(formated_css_dict, sorted_css[i].key)

\* A selector with a pseudo-class is placed by its tag; another is dropped.
C5_Witness ==
    /\ pc = "sorted_by_html"
    /\ HasKey(sorted_css, <<"a", ":", "h">>)
    /\ KeySet(formated_css_dict) \ KeySet(sorted_css) # {}

\* C8: in the HTML-order result a key comes before another whenever its
\* leading token is earlier in the identifier sequence, and, for the same
\* leading token, whenever it was inserted into the model earlier; so the
\* keys of one token are contiguous and in insertion order.
C8_SortByHtmlOrder ==
    pc \in {"sorted_by_html", "done_by_html"} =>
        \A i, j \in 1..Len(sorted_css) :
            LET k1 == sorted_css[i].key
                k2 == sorted_css[j].key
                t1 == Strip(SelectorPieces(k1)[1])
                t2 == Strip(SelectorPieces(k2)[1])
            IN /\ Position(html_element_order, t1) < Position(html_element_order, t2)
                     => i < j
               /\ t1 = t2 /\ IndexOf(formated_css_dict, k1) < IndexOf(formated_css_dict, k2)
                     => i < j

\* Two keys of one token after a key of an earlier token that was inserted
\* between them.
C8_Witness ==
    /\ pc = "sorted_by_html"
    /\ Len(sorted_css) = 3
    /\ Keys(sorted_css) # Keys(formated_css_dict)
    /\ SelectorPieces(sorted_css[2].key)[1] = SelectorPieces(sorted_css[3].key)[1]
    /\ SelectorPieces(sorted_css[1].key)[1] # SelectorPieces(sorted_css[2].key)[1]
    /\ IndexOf(formated_css_dict, sorted_css[2].key)
          < IndexOf(formated_css_dict, sorted_css[1].key)
    /\ IndexOf(formated_css_dict, sorted_css[1].key)
          < IndexOf(formated_css_dict, sorted_css[3].key)

\* The text of a list of lines, each ended by a newline.
RECURSIVE TextOfLines(_)
TextOfLines(lines) ==
    IF lines = <<>> THEN <<>> ELSE Head(lines) \o NL \o TextOfLines(Tail(lines))

\* The lines of one block after its comment part.
RuleLines(e) ==
    << e.key \o <<" ", "{">> >>
    \o [i \in 1..Len(e.props) |-> Indent \o e.props[i] \o <<";">>]
    \o << <<"}">> >>

Rendered == pc \in {"done_by_keys", "done_by_html"}

\* C7 as stated: each block is the comment and a newline if the comment is
\* non-empty, otherwise a bare newline, then the selector line, the property
\* lines and the closing line, and nothing else.
C7_OutputAsStated ==
    Rendered =>
        css_output =
            Flatten([i \in 1..Len(sorted_css) |->
                (IF sorted_css[i].comment # <<>> THEN sorted_css[i].comment \o NL ELSE NL)
                \o TextOfLines(RuleLines(sorted_css[i]))])

\* C7 amended: each block is a bare newline, then the comment and a newline
\* if the comment is non-empty, then the selector line, the property lines and
\* the closing line, and nothing else.
C7_OutputAmended ==
    Rendered =>
        css_output =
            Flatten([i \in 1..Len(sorted_css) |->
                TextOfLines(<< <<>> >>
                            \o (IF sorted_css[i].comment # <<>>
                                THEN <<sorted_css[i].comment>> ELSE <<>>)
                            \o RuleLines(sorted_css[i]))])

\* A block with a comment and a block without, both with properties.
C7_Witness ==
    /\ Rendered
    /\ \E i, j \in 1..Len(sorted_css) :
          /\ sorted_css[i].comment # <<>> /\ Len(sorted_css[i].props) > 1
          /\ sorted_css[j].comment = <<>>
    /\ css_output # <<>>

\* C10: both sorters return an ordered model for every model and every
\* identifier sequence; neither ends in an error.
C10_SortersTotal == pc # "IndexError"

\* ------------------------------------------------------- the HTML flattener

Flattened == pc = "html_done"

Elements == {n \in 1..Len(soup) : ~soup[n].is_text}

\* Where in the yielded stream the #id and .class of element n are.
AttrIdx(n) ==
    {j \in 1..Len(identifiers) :
        identifiers[j].node = n /\ identifiers[j].kind \in {"id", "class"}}

\* Where the tag name of element n is: the yield of its name as a key of
\* its parent's dict.
OwnTagIdx(n) ==
    {j \in 1..Len(identifiers) :
        /\ identifiers[j].kind = "tag"
        /\ identifiers[j].tok = soup[n].name
        /\ identifiers[j].node = soup[n].parent}

\* Where the identifiers of the children of n start: the yields for the
\* keys of n's dict.
ChildIdx(n) ==
    {j \in 1..Len(identifiers) :
        identifiers[j].node = n /\ identifiers[j].kind = "tag"}

\* #id, then .class per class in declared order.
IdClassTokens(n) ==
    (IF soup[n].attrs.id # <<>> THEN << <<"#">> \o soup[n].attrs.id[1] >> ELSE <<>>)
    \o (IF soup[n].attrs.class # <<>>
        THEN [i \in 1..Len(soup[n].attrs.class[1]) |-> <<".">> \o soup[n].attrs.class[1][i]]
        ELSE <<>>)

\* The #id/.class tokens yielded for n, in the order yielded.
YieldedIdClass(n) ==
    Tokens(SelectSeq(identifiers,
                     LAMBDA y : y.node = n /\ y.kind \in {"id", "class"}))

\* C2 as stated: an element's identifiers are yielded as #id, the classes in
\* declared order, then its tag name, and only then its children's.
C2_TagAfterIdClass ==
    Flattened =>
        \A n \in Elements :
            AttrIdx(n) # {} =>
                /\ YieldedIdClass(n) = IdClassTokens(n)
                /\ \E k \in OwnTagIdx(n) :
                      /\ \A j \in AttrIdx(n) : j < k
                      /\ \A c \in ChildIdx(n) : k < c

\* C2 amended: the tag name comes first (the document's html element has
\* none yielded), then #id, then the classes in declared order, and only
\* then the children's identifiers.
C2_TagBeforeIdClass ==
    Flattened =>
        \A n \in Elements :
            AttrIdx(n) # {} =>
                /\ YieldedIdClass(n) = IdClassTokens(n)
                /\ \/ soup[n].parent = 0 /\ soup[n].name = s_html
                   \/ \E k \in OwnTagIdx(n) : \A j \in AttrIdx(n) : k < j
                /\ \A j \in AttrIdx(n), c \in ChildIdx(n) : j < c

\* An element below the top with an id, two classes and a child, all yielded.
C2_Witness ==
    /\ Flattened
    /\ \E n \in Elements :
          /\ soup[n].parent # 0
          /\ soup[n].attrs.id # <<>>
          /\ soup[n].attrs.class # <<>> /\ Len(soup[n].attrs.class[1]) = 2
          /\ Cardinality(AttrIdx(n)) = 3
          /\ OwnTagIdx(n) # {}
          /\ ChildIdx(n) # {}

\* The identifiers element n carries: its tag name, #id and .classes.
Carried(n) == {soup[n].name} \cup Range(IdClassTokens(n))

\* The elements the walk starts from body covers: those in a body of a
\* top-level html element if there is one, all elements otherwise.
BodyRoots ==
    {n \in Elements :
        /\ soup[n].name = s_body
        /\ soup[n].parent # 0
        /\ soup[soup[n].parent].name = s_html
        /\ soup[soup[n].parent].parent = 0}

Walked ==
    IF BodyRoots = {} THEN Elements
    ELSE {n \in Elements :
            AncestorsOrSelf([i \in 1..Len(soup) |-> soup[i].parent], n) \cap BodyRoots # {}}

\* The first walked element, in document order, that carries identifier x.
FirstCarrier(x) ==
    CHOOSE n \in Walked :
        /\ x \in Carried(n)
        /\ \A m \in Walked : x \in Carried(m) => n <= m

\* C3: the sequence has no duplicates, and of two identifiers first carried
\* by different elements the one whose first element is earlier in the
\* document comes first.
C3_FirstAppearanceOrder ==
    Flattened =>
        /\ NoDuplicates(html_element_order)
        /\ \A i, j \in 1..Len(html_element_order) :
              LET x == html_element_order[i]
                  y == html_element_order[j]
              IN FirstCarrier(x) # FirstCarrier(y) =>
                    (i < j <=> FirstCarrier(x) < FirstCarrier(y))

====
